---- MODULE Spec2Model ----
(***************************************************************************)
(* Model of tokio-go (src/src/lib.rs): the process-wide RUNTIMES table     *)
(* behind a std::sync::RwLock, init_runtime's double-checked construction, *)
(* and the two arms of the go! macro (spawn on a runtime, then wait on a   *)
(* oneshot receiver, optionally raced against tokio::time::timeout).       *)
(*                                                                         *)
(* Each caller is one logical task that performs one call: init_runtime(p) *)
(* or go!(work), go!(work, Context{p, ZERO}), go!(work, Context{p, d>0}).  *)
(* A task runs on an OS thread; between two await points it keeps the      *)
(* thread, and a std RwLock acquisition that cannot proceed blocks the     *)
(* thread (it is not an await point).  The only await point of go! is the  *)
(* wait on the receiver.  A panic unwinds the task that raised it.         *)
(*                                                                         *)
(* std::sync::RwLock leaves its priority policy unspecified (a waiting     *)
(* writer may or may not hold back new readers).  The read guard below is  *)
(* the weakest one (no writer holds the lock); a stricter policy only      *)
(* removes behaviours, so every safety property checked here covers it.    *)
(***************************************************************************)
EXTENDS Integers, FiniteSets, Sequences, TLC

\* ---- bounds -------------------------------------------------------------
NCallers == 2
MaxProfile == 1
MaxVal == 2

Callers == 1..NCallers
Profiles == 0..MaxProfile
Values == 1..MaxVal
Ops == {"init", "none", "zero", "pos"}

VARIABLES
  slot,      \* RUNTIMES: profile -> 0 (None) or the id of the Runtime stored
  built,     \* profile -> number of Runtime::new() successes stored for it
  writer,    \* caller holding the RwLock write guard, 0 if none
  readers,   \* callers holding a read guard `rts` (go!, kept across await)
  poisoned,  \* RwLock poison flag
  running,   \* thread -> task occupying it (0: thread free to poll a task)
  thr,       \* caller -> thread the task is polled on
  pc,        \* caller -> position
  op,        \* caller -> call form
  prof,      \* caller -> profile argument
  wk,        \* caller -> state of the work spawned by its go!
  sentVal,   \* caller -> value its work passed to sender.send (0: none)
  chan,      \* caller -> state of its oneshot channel
  chanVal,   \* caller -> value stored in its channel (0: none)
  elapsed,   \* caller -> the duration handed to timeout() has elapsed
  spawnedOn, \* caller -> profile whose Runtime the work was spawned on (-1)
  outcome    \* caller -> value produced by the call

vars == <<slot, built, writer, readers, poisoned, running, thr, pc, op, prof,
          wk, sentVal, chan, chanVal, elapsed, spawnedOn, outcome>>

regVars == <<slot, built, writer, readers, poisoned>>
workVars == <<wk, sentVal, chan, chanVal, elapsed, spawnedOn>>

\* ---- result values ------------------------------------------------------
NoOutcome == [kind |-> "none", val |-> 0, msg |-> ""]
Unit == [kind |-> "unit", val |-> 0, msg |-> ""]
Pending == [kind |-> "pending", val |-> 0, msg |-> ""]
Panic == [kind |-> "panic", val |-> 0, msg |-> ""]
Ok(v) == [kind |-> "ok", val |-> v, msg |-> ""]
Err(m) == [kind |-> "err", val |-> 0, msg |-> m]
UnknownError == Err("unknown error")
Timeout == Err("timeout")

\* ---- pure parts of the code --------------------------------------------
IsSomeNever(tbl, p) == FALSE
\* line 20: r[profile].is_some()
IsSome(tbl, p) == tbl[p] # 0

NeedsConstructNoRecheck(tbl, p) == TRUE
\* line 25: the re-check under the write guard, w[profile].is_none()
NeedsConstruct(tbl, p) == tbl[p] = 0

StoreInSlotZero(tbl, p, id) == [tbl EXCEPT ![0] = id]
\* line 26: w[profile as usize] = Some(..)
Store(tbl, p, id) == [tbl EXCEPT ![p] = id]

ProfileOfIgnoresForm(o, p) == p
\* lines 67-79 use slot 0; lines 83-85 use $c.profile
ProfileOf(o, p) == IF o = "none" THEN 0 ELSE p

\* lines 74-77 / 88-91: match receiver.await { Ok(v) => Ok(v), Err(_) => Err("unknown error") }
Recv(ch, v) ==
  IF ch = "value" THEN Ok(v)
  ELSE IF ch = "closed" THEN UnknownError
  ELSE Pending

RecvTimeoutTimerFirst(ch, v, el) ==
  IF el THEN Timeout
  ELSE IF ch = "value" THEN Ok(v)
  ELSE IF ch = "closed" THEN Panic
  ELSE Pending
RecvTimeoutUnknown(ch, v, el) ==
  IF ch = "value" THEN Ok(v)
  ELSE IF ch = "closed" THEN Panic
  ELSE IF el THEN UnknownError
  ELSE Pending
\* lines 92-95: match timeout(d, receiver).await { Err(_) => Err("timeout"), Ok(v) => Ok(v.unwrap()) }
\* timeout polls the receiver first and the deadline second.
RecvTimeout(ch, v, el) ==
  IF ch = "value" THEN Ok(v)
  ELSE IF ch = "closed" THEN Panic
  ELSE IF el THEN Timeout
  ELSE Pending

AwaitZeroIsDeadline(o, ch, v, el) ==
  IF o \in {"pos", "zero"} THEN RecvTimeout(ch, v, el) ELSE Recv(ch, v)
\* lines 74-77 and 87-96: the await of the two arms
Await(o, ch, v, el) ==
  IF o = "pos" THEN RecvTimeout(ch, v, el) ELSE Recv(ch, v)

WorkAbortedOnTimeout(r, w) == IF r = Timeout /\ w = "running" THEN "aborted" ELSE w
\* lines 73/86: the JoinHandle of runtime.spawn is discarded, so the work is
\* detached and no outcome of the wait touches it
WorkOnOutcome(r, w) == w

SharedChannel(c) == 1
\* lines 69/82: every call makes its own channel; the sender moved into the
\* work of call c belongs to the channel of call c
ChannelOf(c) == c

DroppedBeforeAwait(rs, c) == rs
\* lines 71/84: `rts` is a local of the async block, alive until the block
\* ends, so the read guard taken for the lookup is kept across the await
HoldAcrossAwait(rs, c) == rs \cup {c}

\* Sender::send: stores the value unless the receiver is gone
Deliver(rxAlive, ch) == IF rxAlive /\ ch = "empty" THEN "value" ELSE ch
\* Sender dropped without a send: closes the channel for a live receiver
Close(rxAlive, ch) == IF rxAlive /\ ch = "empty" THEN "closed" ELSE ch

\* ---- lock guards --------------------------------------------------------
ReadAdmit == writer = 0
WriteAdmit == writer = 0 /\ readers = {}

OnThread(c) == running[thr[c]] = c
Yield(c) == running' = [running EXCEPT ![thr[c]] = 0]

\* ---- initial state ------------------------------------------------------
\* Placements of the tasks on threads: a thread is named after the first of
\* the callers it polls.  OwnThreads gives every task a thread of its own
\* (tasks on different threads, or block_on per thread); SharedThreads also
\* has tasks polled by one thread (join!, LocalSet).
OwnThreads == {[c \in Callers |-> c]}
SharedThreads ==
  {f \in [Callers -> Callers] : \A c \in Callers : f[c] <= c /\ f[f[c]] = f[c]}

InitOn(placements) ==
  /\ slot = [p \in Profiles |-> 0]
  /\ built = [p \in Profiles |-> 0]
  /\ writer = 0
  /\ readers = {}
  /\ poisoned = FALSE
  /\ running = [t \in Callers |-> 0]
  /\ thr \in placements
  /\ pc = [c \in Callers |-> "idle"]
  /\ op = [c \in Callers |-> "init"]
  /\ prof = [c \in Callers |-> 0]
  /\ wk = [c \in Callers |-> "none"]
  /\ sentVal = [c \in Callers |-> 0]
  /\ chan = [c \in Callers |-> "empty"]
  /\ chanVal = [c \in Callers |-> 0]
  /\ elapsed = [c \in Callers |-> FALSE]
  /\ spawnedOn = [c \in Callers |-> -1]
  /\ outcome = [c \in Callers |-> NoOutcome]

\* A task sharing its thread can only lose steps to the thread's occupancy,
\* so every behaviour of InitShared is, thr and running aside, a behaviour
\* of Init: safety is checked from Init, progress under sharing from
\* InitShared.
Init == InitOn(OwnThreads)
InitShared == InitOn(SharedThreads)

\* ---- actions ------------------------------------------------------------
\* init_runtime returns to its caller: a direct call is over, go! goes on
\* to RUNTIMES.read() (lines 71/84)
InitReturn(c) ==
  IF op[c] = "init"
  THEN /\ pc' = [pc EXCEPT ![c] = "done"]
       /\ outcome' = [outcome EXCEPT ![c] = Unit]
       /\ Yield(c)
  ELSE /\ pc' = [pc EXCEPT ![c] = "go_read"]
       /\ UNCHANGED <<outcome, running>>

\* The task is polled for the first time: channel::<T>() (lines 69/82), the
\* call of init_runtime (lines 70/83, or a direct call) and its lines 18-23:
\* read guard, fast-path check, guard dropped at the end of the block.
\* While a writer holds the lock the read cannot be served; the call is then
\* taken to begin when it is.
Start(c, o, p) ==
  /\ pc[c] = "idle"
  /\ running[thr[c]] = 0
  /\ ReadAdmit
  /\ op' = [op EXCEPT ![c] = o]
  /\ prof' = [prof EXCEPT ![c] = ProfileOf(o, p)]
  /\ IF poisoned
     THEN /\ pc' = [pc EXCEPT ![c] = "panic_read_init"]
          /\ UNCHANGED <<outcome, running>>
     ELSE IF IsSome(slot, ProfileOf(o, p))
          THEN /\ pc' = [pc EXCEPT ![c] = IF o = "init" THEN "done" ELSE "go_read"]
               /\ outcome' = [outcome EXCEPT ![c] = IF o = "init" THEN Unit ELSE @]
               /\ running' = [running EXCEPT ![thr[c]] = IF o = "init" THEN 0 ELSE c]
          ELSE /\ pc' = [pc EXCEPT ![c] = "ir_wacq"]
               /\ running' = [running EXCEPT ![thr[c]] = c]
               /\ UNCHANGED outcome
  /\ UNCHANGED <<regVars, workVars, thr>>

\* line 24: RUNTIMES.write().unwrap()
IrWriteAcq(c) ==
  /\ pc[c] = "ir_wacq"
  /\ OnThread(c)
  /\ WriteAdmit
  /\ IF poisoned
     THEN /\ pc' = [pc EXCEPT ![c] = "panic_write"]
          /\ Yield(c)
          /\ UNCHANGED writer
     ELSE /\ pc' = [pc EXCEPT ![c] = "ir_whold"]
          /\ writer' = c
          /\ UNCHANGED running
  /\ UNCHANGED <<slot, built, readers, poisoned, workVars, thr, op, prof, outcome>>

\* lines 25-28: re-check, Runtime::new().unwrap(), store, write guard dropped.
\* newOk = FALSE: Runtime::new() returns Err, unwrap panics while the write
\* guard is alive, and dropping the guard during the unwind poisons the lock.
IrWriteBody(c, newOk) ==
  /\ pc[c] = "ir_whold"
  /\ OnThread(c)
  /\ writer = c
  /\ writer' = 0
  /\ IF NeedsConstruct(slot, prof[c])
     THEN IF newOk
          THEN /\ built' = [built EXCEPT ![prof[c]] = @ + 1]
               /\ slot' = Store(slot, prof[c], built[prof[c]] + 1)
               /\ InitReturn(c)
               /\ UNCHANGED poisoned
          ELSE /\ poisoned' = TRUE
               /\ pc' = [pc EXCEPT ![c] = "panic_new"]
               /\ Yield(c)
               /\ UNCHANGED <<slot, built, outcome>>
     ELSE /\ InitReturn(c)
          /\ UNCHANGED <<slot, built, poisoned>>
  /\ UNCHANGED <<readers, workVars, thr, op, prof>>

\* lines 71-74 / 84-88: rts = RUNTIMES.read().unwrap(), the runtime lookup,
\* runtime.spawn(work(sender)), and the first poll of the wait, which
\* suspends the task.  `rts` stays alive until the async block ends.
GoRead(c) ==
  /\ pc[c] = "go_read"
  /\ OnThread(c)
  /\ ReadAdmit
  /\ Yield(c)
  /\ IF poisoned
     THEN /\ pc' = [pc EXCEPT ![c] = "panic_read_go"]
          /\ UNCHANGED <<readers, workVars>>
     ELSE /\ IsSome(slot, prof[c])
          /\ readers' = HoldAcrossAwait(readers, c)
          /\ wk' = [wk EXCEPT ![c] = "running"]
          /\ spawnedOn' = [spawnedOn EXCEPT ![c] = prof[c]]
          /\ elapsed' = [elapsed EXCEPT ![c] = (op[c] = "zero")]
          /\ pc' = [pc EXCEPT ![c] = "waiting"]
          /\ UNCHANGED <<sentVal, chan, chanVal>>
  /\ UNCHANGED <<slot, built, writer, poisoned, thr, op, prof, outcome>>

\* A positive wait bound runs out
Tick(c) ==
  /\ pc[c] = "waiting"
  /\ op[c] = "pos"
  /\ ~elapsed[c]
  /\ elapsed' = [elapsed EXCEPT ![c] = TRUE]
  /\ UNCHANGED <<regVars, running, thr, pc, op, prof, wk, sentVal, chan,
                 chanVal, spawnedOn, outcome>>

\* The work, running on its backend's threads, calls sender.send(v)
WorkSend(c, v) ==
  /\ wk[c] = "running"
  /\ wk' = [wk EXCEPT ![c] = "sent"]
  /\ sentVal' = [sentVal EXCEPT ![c] = v]
  /\ LET k == ChannelOf(c) IN
       /\ chan' = [chan EXCEPT ![k] = Deliver(pc[k] = "waiting", @)]
       /\ chanVal' = [chanVal EXCEPT ![k] = IF chan'[k] # chan[k] THEN v ELSE @]
  /\ UNCHANGED <<regVars, running, thr, pc, op, prof, elapsed, spawnedOn, outcome>>

\* The work returns without sending: its sender is dropped
WorkReturn(c) ==
  /\ wk[c] = "running"
  /\ wk' = [wk EXCEPT ![c] = "returned"]
  /\ LET k == ChannelOf(c) IN
       chan' = [chan EXCEPT ![k] = Close(pc[k] = "waiting", @)]
  /\ UNCHANGED <<regVars, running, thr, pc, op, prof, sentVal, chanVal,
                 elapsed, spawnedOn, outcome>>

\* The task is woken and polled on its thread: the wait of lines 74-77 /
\* 87-96 completes, the async block ends, receiver and `rts` are dropped.
\* A panic while only a read guard is alive does not poison the lock.
Poll(c) ==
  /\ pc[c] = "waiting"
  /\ running[thr[c]] = 0
  /\ LET r == Await(op[c], chan[c], chanVal[c], elapsed[c]) IN
     /\ r # Pending
     /\ IF r = Panic
        THEN /\ pc' = [pc EXCEPT ![c] = "panic_recv"]
             /\ UNCHANGED outcome
        ELSE /\ pc' = [pc EXCEPT ![c] = "done"]
             /\ outcome' = [outcome EXCEPT ![c] = r]
     /\ wk' = [wk EXCEPT ![c] = WorkOnOutcome(r, @)]
  /\ readers' = readers \ {c}
  /\ UNCHANGED <<slot, built, writer, poisoned, running, thr, op, prof,
                 sentVal, chan, chanVal, elapsed, spawnedOn>>

Next ==
  \/ \E c \in Callers, o \in Ops, p \in Profiles : Start(c, o, p)
  \/ \E c \in Callers : IrWriteAcq(c)
  \/ \E c \in Callers, newOk \in BOOLEAN : IrWriteBody(c, newOk)
  \/ \E c \in Callers : GoRead(c)
  \/ \E c \in Callers : Tick(c)
  \/ \E c \in Callers, v \in Values : WorkSend(c, v)
  \/ \E c \in Callers : WorkReturn(c)
  \/ \E c \in Callers : Poll(c)

Spec == Init /\ [][Next]_vars
SpecShared == InitShared /\ [][Next]_vars

\* Scheduling: a thread goes on executing the code of the task it runs, a
\* lock that stays free is granted, a timer fires, and a task whose wait is
\* ready is polled once its thread is free.  The work is caller-supplied and
\* may run forever, and a call need not be made at all: no fairness for
\* WorkSend, WorkReturn and Start.
Fairness ==
  \A c \in Callers :
    /\ WF_vars(IrWriteAcq(c))
    /\ WF_vars(\E newOk \in BOOLEAN : IrWriteBody(c, newOk))
    /\ WF_vars(GoRead(c))
    /\ WF_vars(Tick(c))
    /\ WF_vars(Poll(c))
FairSpec == Spec /\ Fairness
FairSpecShared == SpecShared /\ Fairness

\* ---- properties ---------------------------------------------------------
IsDispatch(c) == op[c] \in {"none", "zero", "pos"}
\* init_runtime(prof[c]) has returned to caller c
InitReturned(c) ==
  pc[c] \in {"go_read", "waiting", "done", "panic_read_go", "panic_recv"}
\* the wait of c's dispatch is over
WaitOver(c) == IsDispatch(c) /\ pc[c] \in {"done", "panic_recv"}

\* C1: however the callers of init_runtime(p) interleave, at most one
\* backend is ever constructed for p, and whenever a caller has returned
\* from init_runtime(p), slot[p] is populated by exactly one construction.
C1_ExactlyOnce ==
  /\ \A p \in Profiles : built[p] <= 1
  /\ \A c \in Callers :
       InitReturned(c) => IsSome(slot, prof[c]) /\ built[prof[c]] = 1
\* two callers on different threads both missed the fast path for the same
\* profile; one has constructed and returned, the other holds the write guard
C1_Witness ==
  \E c, d \in Callers :
    /\ c # d /\ thr[c] # thr[d] /\ prof[c] = prof[d]
    /\ op[c] = "init" /\ pc[c] = "done"
    /\ pc[d] = "ir_whold"
    /\ built[prof[c]] = 1

\* C2: a dispatch whose work dropped its sender without sending (and, with
\* a positive bound, before the bound elapsed) returns "unknown error" in
\* all three call forms.
C2_DroppedYieldsUnknownError ==
  \A c \in Callers :
    (WaitOver(c) /\ chan[c] = "closed" /\ (op[c] = "pos" => ~elapsed[c]))
      => (pc[c] = "done" /\ outcome[c] = UnknownError)

\* C3: once the backend is obtained a dispatch never panics on a dropped
\* sender or an elapsed bound; it ends with success, "unknown error" or
\* "timeout".
C3_NeverPanics ==
  \A c \in Callers :
    /\ pc[c] # "panic_recv"
    /\ (IsDispatch(c) /\ pc[c] = "done") =>
         outcome[c].kind = "ok" \/ outcome[c] \in {UnknownError, Timeout}

\* C4: while a dispatch on p waits for its result, a dispatch on q # p
\* running on another thread that has to construct slot[q] can take the
\* write guard, as long as nobody but the waiting dispatch uses the lock.
C4_NoCrossProfileBlocking ==
  \A c, d \in Callers :
    (/\ c # d /\ thr[c] # thr[d] /\ prof[c] # prof[d]
     /\ pc[c] = "waiting" /\ IsDispatch(d) /\ pc[d] = "ir_wacq"
     /\ writer = 0 /\ readers = {c})
      => ENABLED IrWriteAcq(d)

\* C5: a failed construction leaves the slot empty and does not make any
\* other call on the registry fail: no call panics on acquiring the lock.
C5_FailureLeavesRegistryUsable ==
  /\ \A c \in Callers : pc[c] = "panic_new" => ~IsSome(slot, prof[c])
  /\ \A c \in Callers :
       pc[c] \notin {"panic_read_init", "panic_write", "panic_read_go"}

\* C6: a wait ends with "timeout" exactly when the call has a positive
\* bound, the bound has elapsed and the channel holds neither a value nor a
\* close at that moment; the work is then still running.
C6_Step ==
  \A c \in Callers :
    (pc[c] = "waiting" /\ pc'[c] # "waiting") =>
      /\ (pc'[c] = "done" /\ outcome'[c] = Timeout)
           <=> (op[c] = "pos" /\ elapsed[c] /\ chan[c] = "empty")
      /\ outcome'[c] = Timeout => wk[c] = "running"
C6_TimeoutIffBoundElapsedFirst == [][C6_Step]_vars
C6_Witness ==
  \E c \in Callers :
    op[c] = "pos" /\ pc[c] = "done" /\ outcome[c] = Timeout /\ wk[c] = "running"

\* C7: when a dispatch returns "timeout" its work is still running and goes
\* on undisturbed; the work's later send is dropped: it changes neither the
\* returned outcome, nor the dispatch's channel, nor anything of another
\* dispatch.
C7_Step ==
  \A c \in Callers :
    /\ (pc[c] = "waiting" /\ pc'[c] = "done" /\ outcome'[c] = Timeout)
         => wk'[c] = "running"
    /\ (pc[c] = "done" /\ outcome[c] = Timeout) =>
         /\ pc'[c] = "done" /\ outcome'[c] = Timeout
         /\ chan'[c] = "empty" /\ chanVal'[c] = 0
         /\ wk'[c] \in {"running", "sent", "returned"}
         /\ wk'[c] # wk[c] =>
              \A d \in Callers \ {c} :
                chan'[d] = chan[d] /\ chanVal'[d] = chanVal[d]
                  /\ outcome'[d] = outcome[d] /\ pc'[d] = pc[d]
C7_TimeoutAbandonsWaitOnly == [][C7_Step]_vars
C7_Witness ==
  \E c \in Callers :
    pc[c] = "done" /\ outcome[c] = Timeout /\ wk[c] = "sent"
      /\ sentVal[c] # 0 /\ chan[c] = "empty"

\* C8: with a zero wait bound the wait never ends with "timeout", although
\* the zero bound has elapsed from the start; its outcome is the function
\* of the work's behaviour that the form without configuration has:
\* success(V) for a work that sent V, "unknown error" for a work that
\* returned without sending, and no outcome while the work is running.
UnboundedOutcome(c) ==
  /\ pc[c] = "done"
  /\ \/ wk[c] = "sent" /\ outcome[c] = Ok(sentVal[c])
     \/ wk[c] = "returned" /\ outcome[c] = UnknownError
C8_ZeroBoundIsUnbounded ==
  \A c \in Callers :
    /\ (op[c] = "zero" /\ pc[c] = "waiting") => elapsed[c]
    /\ (op[c] \in {"zero", "none"} /\ WaitOver(c)) =>
         outcome[c] # Timeout /\ UnboundedOutcome(c)
C8_Witness ==
  \E c \in Callers :
    op[c] = "zero" /\ pc[c] = "done" /\ elapsed[c]
      /\ outcome[c] = Ok(sentVal[c]) /\ sentVal[c] \in Values

\* C9: in every call form, a send of V made before a positive bound has
\* elapsed is stored in the channel with the value sent, and a dispatch
\* whose channel holds V ends its wait by returning success(V), never a
\* failure or another value; the returned value never changes afterwards.
C9_Step ==
  \A c \in Callers :
    /\ (wk[c] = "running" /\ wk'[c] = "sent" /\ (op[c] = "pos" => ~elapsed[c]))
         => (chan'[c] = "value" /\ chanVal'[c] = sentVal'[c] /\ sentVal'[c] \in Values)
    /\ (chan[c] = "value" /\ IsDispatch(c)) =>
         /\ chan'[c] = "value" /\ chanVal'[c] = chanVal[c] /\ sentVal'[c] = chanVal[c]
         /\ pc'[c] \in {"waiting", "done"}
         /\ pc'[c] = "done" => outcome'[c] = Ok(chanVal[c])
C9_SentValueIsReturned == [][C9_Step]_vars
\* a bounded dispatch has returned the value sent, its bound having elapsed
\* behind the send
C9_Witness ==
  \E c \in Callers :
    op[c] = "pos" /\ pc[c] = "done" /\ elapsed[c]
      /\ outcome[c] = Ok(sentVal[c]) /\ sentVal[c] = MaxVal

\* C10: a populated slot keeps its backend in every step, and no profile
\* ever has more than one backend constructed.
C10_Step ==
  \A p \in Profiles :
    /\ IsSome(slot, p) => slot'[p] = slot[p]
    /\ built'[p] <= 1
C10_SlotsArePermanent == [][C10_Step]_vars
\* a populated slot has been through a timed-out dispatch whose work sent
\* afterwards and through another caller's init_runtime on the same profile
C10_Witness ==
  \E c, d \in Callers :
    /\ c # d /\ prof[c] = prof[d] /\ slot[prof[c]] = 1
    /\ pc[c] = "done" /\ outcome[c] = Timeout /\ wk[c] = "sent"
    /\ pc[d] = "done" /\ op[d] = "init"

\* the call of c has ended: it returned, or it unwound by a panic
Ended(c) ==
  pc[c] \in {"done", "panic_new", "panic_read_init", "panic_write",
            "panic_read_go", "panic_recv"}

\* C11: a dispatch with a positive wait bound never hangs: whatever its
\* work and the other calls do, once made it eventually ends.
C11_BoundedDispatchEnds ==
  \A c \in Callers : (op[c] = "pos" /\ pc[c] # "idle") ~> Ended(c)

\* C12: with tasks polled by one thread, a dispatch without time limit
\* whose work has sent or has returned eventually returns its outcome.
C12_UnboundedDispatchReturns ==
  \A c \in Callers :
    (op[c] \in {"none", "zero"} /\ pc[c] = "waiting" /\ chan[c] # "empty")
      ~> (pc[c] = "done")

\* C13: the form without configuration acts on slot 0 only (it ensures
\* slot 0, spawns on slot 0, and its steps leave every other slot alone),
\* and its wait ends exactly when, and with the outcome with which, the
\* wait of the configured form with profile 0 and a zero bound ends.
C13_Step ==
  \A c \in Callers :
    op'[c] = "none" =>
      /\ prof'[c] = 0
      /\ spawnedOn'[c] \in {-1, 0}
      /\ pc'[c] # pc[c] => \A q \in Profiles \ {0} : slot'[q] = slot[q]
      /\ (pc[c] = "waiting" /\ pc'[c] # "waiting") =>
           LET z == Await("zero", chan[c], chanVal[c], TRUE) IN
             z \notin {Pending, Panic} /\ pc'[c] = "done" /\ outcome'[c] = z
      /\ (pc[c] = "waiting" /\ Await("zero", chan[c], chanVal[c], TRUE) = Pending)
           => pc'[c] = "waiting"
C13_NoConfigIsProfileZeroUnbounded == [][C13_Step]_vars
C13_Witness ==
  \E c \in Callers :
    /\ op[c] = "none" /\ pc[c] = "done" /\ outcome[c].kind = "ok"
    /\ spawnedOn[c] = 0 /\ slot[0] # 0
    /\ \A q \in Profiles \ {0} : slot[q] = 0

\* C14: a dispatch gets one outcome, which never changes; its channel takes
\* at most one value, put there by a step of its own work and by nothing
\* else; and a returned success carries the value sent by its own work.
C14_Step ==
  \A c \in Callers :
    /\ outcome[c] # NoOutcome => outcome'[c] = outcome[c]
    /\ (pc'[c] = "done") <=> (outcome'[c] # NoOutcome)
    /\ chan[c] # "empty" => (chan'[c] = chan[c] /\ chanVal'[c] = chanVal[c])
    /\ (chan'[c] # chan[c] \/ chanVal'[c] # chanVal[c]) =>
         (wk[c] = "running" /\ wk'[c] # "running" /\ pc' = pc)
    /\ chan'[c] = "value" => (wk'[c] = "sent" /\ chanVal'[c] = sentVal'[c])
    /\ outcome'[c].kind = "ok" =>
         (wk'[c] = "sent" /\ outcome'[c].val = sentVal'[c])
C14_OwnValueOnce == [][C14_Step]_vars
\* two dispatches on one backend, each returned the value of its own work
C14_Witness ==
  \E c, d \in Callers :
    /\ c # d /\ spawnedOn[c] = spawnedOn[d]
    /\ outcome[c] = Ok(1) /\ outcome[d] = Ok(MaxVal) /\ MaxVal # 1
    /\ sentVal[c] = 1 /\ sentVal[d] = MaxVal

\* C15: a call of init_runtime(p) made when slot[p] is populated is over
\* after the shared-read check: it never reaches the write path, and it
\* changes no slot, no construction count and no lock state.  (The check
\* itself is RUNTIMES.read().unwrap(): it returns unless the lock is
\* poisoned.)
C15_Step ==
  \A c \in Callers :
    (pc[c] = "idle" /\ pc'[c] # "idle" /\ slot[prof'[c]] # 0) =>
      /\ pc'[c] \in {"done", "go_read", "panic_read_init"}
      /\ (pc'[c] = "panic_read_init") <=> poisoned
      /\ (op'[c] = "init" /\ ~poisoned) => (pc'[c] = "done" /\ outcome'[c] = Unit)
      /\ writer' = writer /\ writer # c
      /\ slot' = slot /\ built' = built
      /\ readers' = readers /\ poisoned' = poisoned
C16_Step ==
  \A c \in Callers :
    pc'[c] # pc[c] =>
      /\ \A q \in Profiles \ {prof'[c]} : slot'[q] = slot[q]
      /\ pc'[c] \in {"go_read", "waiting", "done", "panic_read_go", "panic_recv"}
           => slot'[prof'[c]] # 0
C16_OnlyOwnSlot == [][C16_Step]_vars
C16_Witness ==
  \E c \in Callers :
    /\ prof[c] = MaxProfile /\ MaxProfile # 0 /\ pc[c] = "done"
    /\ slot[MaxProfile] # 0 /\ slot[0] = 0

\* C17: the dispatches holding a read guard are exactly the waiting ones;
\* while some dispatch is waiting nobody holds the write guard, and no step
\* taken while some dispatch is waiting changes a slot.
C17_Step ==
  /\ \A c \in Callers : (pc'[c] = "waiting") <=> (c \in readers')
  /\ (\E c \in Callers : pc'[c] = "waiting") => writer' = 0
  /\ (\E c \in Callers : pc[c] = "waiting") => slot' = slot
C17_ReadGuardHeldAcrossWait == [][C17_Step]_vars
\* a dispatch waits while another call, whose slot is empty, stands at
\* RUNTIMES.write()
C17_Witness ==
  \E c, d \in Callers :
    /\ pc[c] = "waiting" /\ c \in readers
    /\ pc[d] = "ir_wacq" /\ slot[prof[d]] = 0 /\ writer = 0
====
